---- MODULE Spec2Model ----
(***************************************************************************)
(* A model of the JSON Patch generator of differ.go (type Differ).         *)
(*                                                                         *)
(* JSON values are records tagged by kind.  Go's nil interface (JSON null, *)
(* and the absent OldValue/Value of an operation) is Null.  Strings (keys  *)
(* and JSON Pointers) are sequences of one-character strings, the bytes of *)
(* the Go string, so that strings.HasPrefix and the pointer buffer are     *)
(* modelled byte by byte.  Objects are functions from keys to values: a Go *)
(* map has no key order, and every place the code ranges over a map is     *)
(* modelled by all the orders the runtime can pick.                        *)
(***************************************************************************)
EXTENDS Integers, Sequences, FiniteSets, TLC

\* patch, hashmap, opts and dptr (d.ptr) are the Differ's fields.  The others record
\* the run: the number of comparisons since the Differ was constructed or
\* reset, the inputs of the last comparison, the patch and hash index it
\* started from, the calls of add and of rationalization it made, and
\* whether the Differ was reset after a comparison.
VARIABLES patch, hashmap, opts, dptr, runs, lastSrc, lastTgt, before, trace,
          reused

vars ==
    <<patch, hashmap, opts, dptr, runs, lastSrc, lastTgt, before, trace, reused>>

(***************************************************************************)
(* JSON values                                                             *)
(***************************************************************************)
Null == [kind |-> "null"]

Num(n) == [kind |-> "num", num |-> n]

Arr(s) == [kind |-> "arr", elems |-> s]

Obj(f) == [kind |-> "obj", members |-> f]

EmptyObj == Obj(<<>>)

\* typeSwitchKind: the kind a value's dynamic type switches to.
typeSwitchKind(v) == v.kind

\* areComparable: two values are comparable when their kinds are the same.
areComparable(a, b) == typeSwitchKind(a) = typeSwitchKind(b)

\* deepValueEqual / deepEqual: structural equality; arrays in order, objects
\* by key set and member values.
deepEqual(a, b) == a = b

deepValueEqual(a, b, kind) == deepEqual(a, b)

\* hasher.digest: equal values have equal digests.  The 64-bit digest is
\* taken to be free of collisions on the values of the model.
digest(v) == v

min(i, j) == IF i < j THEN i ELSE j

(***************************************************************************)
(* Strings as byte sequences                                               *)
(***************************************************************************)
\* The byte value of each character the model uses.
CharCode(c) ==
    CASE c = "-" -> 45
      [] c = "/" -> 47
      [] c = "0" -> 48
      [] c = "1" -> 49
      [] c = "2" -> 50
      [] c = "3" -> 51
      [] c = "4" -> 52
      [] c = "5" -> 53
      [] c = "6" -> 54
      [] c = "7" -> 55
      [] c = "8" -> 56
      [] c = "9" -> 57
      [] c = "a" -> 97
      [] c = "b" -> 98
      [] c = "c" -> 99
      [] c = "~" -> 126

Digits == <<"0", "1", "2", "3", "4", "5", "6", "7", "8", "9">>

\* Go's string comparison a > b: bytewise lexicographic.
RECURSIVE StrGreater(_, _)
StrGreater(a, b) ==
    IF a = <<>> THEN FALSE
    ELSE IF b = <<>> THEN TRUE
    ELSE IF a[1] # b[1] THEN CharCode(a[1]) > CharCode(b[1])
    ELSE StrGreater(Tail(a), Tail(b))

\* strings.HasPrefix(s, prefix)
HasPrefix(s, prefix) ==
    /\ Len(prefix) <= Len(s)
    /\ SubSeq(s, 1, Len(prefix)) = prefix

\* strconv.Itoa for a non-negative integer.
RECURSIVE Itoa(_)
Itoa(n) ==
    IF n < 10 THEN <<Digits[n + 1]>>
    ELSE Itoa(n \div 10) \o <<Digits[(n % 10) + 1]>>

\* The escaping of a key inside a JSON Pointer: "~" becomes "~0" and "/"
\* becomes "~1".
RECURSIVE EscapeKey(_)
EscapeKey(k) ==
    IF k = <<>> THEN <<>>
    ELSE (CASE k[1] = "~" -> <<"~", "0">>
            [] k[1] = "/" -> <<"~", "1">>
            [] OTHER -> <<k[1]>>) \o EscapeKey(Tail(k))

(***************************************************************************)
(* The pointer: a byte buffer and a saved length                           *)
(***************************************************************************)
emptyPtr == <<>>

NewPointer == [buf |-> <<>>, sep |-> 0]

appendKey(p, k) == [p EXCEPT !.buf = @ \o <<"/">> \o EscapeKey(k)]

appendIndex(p, i) == [p EXCEPT !.buf = @ \o <<"/">> \o Itoa(i)]

snapshot(p) == [p EXCEPT !.sep = Len(p.buf)]

rewind(p) == [p EXCEPT !.buf = SubSeq(p.buf, 1, p.sep)]

ptrCopy(p) == p.buf

ptrString(p) == p.buf

isRoot(p) == Len(p.buf) = 0

(***************************************************************************)
(* Operations and patches                                                  *)
(***************************************************************************)
OperationAdd == "add"

OperationRemove == "remove"

OperationReplace == "replace"

OperationMove == "move"

OperationCopy == "copy"

OperationTest == "test"

Operation(typ, from, path, src, tgt) ==
    [type |-> typ, from |-> from, path |-> path, old |-> src, value |-> tgt]

\* Patch.append
PatchAppend(p, typ, from, path, src, tgt) ==
    Append(p, Operation(typ, from, path, src, tgt))

\* Patch.remove(idx), idx counted from 0 as in the code.
PatchRemove(p, idx) ==
    SubSeq(p, 1, idx) \o SubSeq(p, idx + 2, Len(p))

(***************************************************************************)
(* The serialized size of values and operations (the cost rationalization  *)
(* compares)                                                               *)
(***************************************************************************)
RECURSIVE SumSeq(_)
SumSeq(s) == IF s = <<>> THEN 0 ELSE s[1] + SumSeq(Tail(s))

RECURSIVE SumOver(_, _)
SumOver(f, S) ==
    IF S = {} THEN 0
    ELSE LET x == CHOOSE y \in S : TRUE IN f[x] + SumOver(f, S \ {x})

\* The number of bytes of the JSON encoding of a value.
RECURSIVE JsonLen(_)
JsonLen(v) ==
    CASE v.kind = "null" -> 4
      [] v.kind = "num" -> Len(Itoa(v.num))
      [] v.kind = "arr" ->
            LET n == Len(v.elems)
            IN 2 + SumSeq([i \in 1..n |-> JsonLen(v.elems[i])])
                 + (IF n > 1 THEN n - 1 ELSE 0)
      [] v.kind = "obj" ->
            LET ks == DOMAIN v.members
                n == Cardinality(ks)
                each == [k \in ks |-> Len(k) + 3 + JsonLen(v.members[k])]
            IN 2 + SumOver(each, ks) + (IF n > 1 THEN n - 1 ELSE 0)

\* Operation.marshalWithValue: add, replace and test carry a value.
marshalWithValue(o) == o.type \in {OperationAdd, OperationReplace, OperationTest}

\* Operation.hasFrom: move and copy carry a from pointer.
hasFrom(o) == o.type \in {OperationMove, OperationCopy}

TypeLen(t) ==
    CASE t = "add" -> 3
      [] t = "remove" -> 6
      [] t = "replace" -> 7
      [] t = "move" -> 4
      [] t = "copy" -> 4
      [] t = "test" -> 4

\* len(`{"op":"","path":""}`), len(`,"value":`) and len(`,"from":""`)
OpEnvelopeLen == 19

ValueFieldLen == 9

FromFieldLen == 10

\* Operation.jsonLength
opJsonLength(o) ==
    OpEnvelopeLen + TypeLen(o.type) + Len(o.path)
      + (IF marshalWithValue(o) THEN ValueFieldLen + JsonLen(o.value) ELSE 0)
      + (IF hasFrom(o) THEN FromFieldLen + Len(o.from) ELSE 0)

\* Patch.jsonLength: the operations and the commas between them.
patchJsonLength(p) ==
    SumSeq([i \in 1..Len(p) |-> opJsonLength(p[i])])
      + (IF Len(p) > 1 THEN Len(p) - 1 ELSE 0)

(***************************************************************************)
(* The Differ.  d is the record [patch, hashmap, opts] of a Differ's       *)
(* fields; every method returns the Differ it leaves.                      *)
(***************************************************************************)
\* findRemoved: the index (from 0) of the first remove operation of the
\* patch whose removed value equals v, or -1.
RECURSIVE findRemovedFrom(_, _, _)
findRemovedFrom(d, v, i) ==
    IF i >= Len(d.patch) THEN -1
    ELSE IF d.patch[i + 1].type = OperationRemove /\ deepEqual(d.patch[i + 1].old, v)
         THEN i
         ELSE findRemovedFrom(d, v, i + 1)

findRemoved(d, v) == findRemovedFrom(d, v, 0)

\* findUnchanged: the pointer the hash index holds for v's digest, or "".
findUnchanged(d, v) ==
    IF digest(v) \in DOMAIN d.hashmap THEN d.hashmap[digest(v)].ptr ELSE emptyPtr

addPlain(d, ptr, v) ==
    [d EXCEPT !.patch = PatchAppend(@, OperationAdd, emptyPtr, ptr, Null, v)]

addFactorized(d, ptr, v) ==
    LET idx == findRemoved(d, v) IN
    IF idx # -1
    THEN LET op == d.patch[idx + 1] IN
         IF ~HasPrefix(ptr, op.path)
         THEN [d EXCEPT !.patch =
                 PatchAppend(PatchRemove(@, idx), OperationMove, op.path, ptr, v, v)]
         ELSE d
    ELSE LET uptr == findUnchanged(d, v) IN
         IF Len(uptr) # 0 /\ ~d.opts.invertible
         THEN [d EXCEPT !.patch = PatchAppend(@, OperationCopy, uptr, ptr, Null, v)]
         ELSE addPlain(d, ptr, v)

add(d, ptr, v) ==
    IF ~d.opts.factorize THEN addPlain(d, ptr, v) ELSE addFactorized(d, ptr, v)

withTest(d, ptr, v) ==
    IF d.opts.invertible
    THEN [d EXCEPT !.patch = PatchAppend(@, OperationTest, emptyPtr, ptr, Null, v)]
    ELSE d

replace(d, ptr, src, tgt) ==
    [withTest(d, ptr, src) EXCEPT
       !.patch = PatchAppend(@, OperationReplace, emptyPtr, ptr, src, tgt)]

remove(d, ptr, v) ==
    [withTest(d, ptr, v) EXCEPT
       !.patch = PatchAppend(@, OperationRemove, emptyPtr, ptr, v, Null)]

\* The operations rationalizeLastOps would substitute at ptr.
newOps(d, ptr, src, tgt) ==
    (IF d.opts.invertible
     THEN <<Operation(OperationTest, emptyPtr, ptrCopy(ptr), Null, src)>>
     ELSE <<>>)
    \o <<Operation(OperationReplace, emptyPtr, ptrCopy(ptr), Null, tgt)>>

\* newLen: the cost the code charges the substitution, that of the replace
\* operation alone.
newLen(d, ptr, src, tgt) ==
    opJsonLength(Operation(OperationReplace, emptyPtr, ptrCopy(ptr), Null, tgt))

\* curOps: d.patch[lastOpIdx:]
curOps(d, lastOpIdx) == SubSeq(d.patch, lastOpIdx + 1, Len(d.patch))

rationalizeLastOps(d, ptr, src, tgt, lastOpIdx) ==
    IF patchJsonLength(curOps(d, lastOpIdx)) > newLen(d, ptr, src, tgt)
    THEN [d EXCEPT !.patch = SubSeq(@, 1, lastOpIdx) \o newOps(d, ptr, src, tgt)]
    ELSE d

\* sortStrings: insertionSort for fewer than 20 keys (sort.Strings gives the
\* same order for more).  InsertSorted is one pass of the inner loop: key
\* moves left past every element greater than it.
RECURSIVE InsertSorted(_, _)
InsertSorted(v, key) ==
    IF v # <<>> /\ StrGreater(v[Len(v)], key)
    THEN Append(InsertSorted(SubSeq(v, 1, Len(v) - 1), key), v[Len(v)])
    ELSE Append(v, key)

RECURSIVE insertionSortFrom(_, _)
insertionSortFrom(v, j) ==
    IF j > Len(v) THEN v
    ELSE insertionSortFrom(
           InsertSorted(SubSeq(v, 1, j - 1), v[j]) \o SubSeq(v, j + 1, Len(v)),
           j + 1)

insertionSort(v) == insertionSortFrom(v, 2)

sortStrings(v) == insertionSort(v)

\* Some enumeration of a set of keys: the order a range over a map gives.
RECURSIVE SomeOrder(_)
SomeOrder(S) ==
    IF S = {} THEN <<>>
    ELSE LET x == CHOOSE y \in S : TRUE IN <<x>> \o SomeOrder(S \ {x})

\* Every enumeration of a set of keys.
RECURSIVE Orders(_)
Orders(S) ==
    IF S = {} THEN {<<>>}
    ELSE UNION {{<<x>> \o o : o \in Orders(S \ {x})} : x \in S}

\* unorderedDeepEqualSlice: the second loop takes each target digest out of
\* the counts of the source digests.
RECURSIVE digestCounts(_, _)
digestCounts(s, diffMap) ==
    IF s = <<>> THEN diffMap
    ELSE LET k == digest(s[1]) IN
         digestCounts(Tail(s),
           IF k \in DOMAIN diffMap
           THEN [diffMap EXCEPT ![k] = @ + 1]
           ELSE (k :> 1) @@ diffMap)

RECURSIVE takeDigests(_, _)
takeDigests(t, diffMap) ==
    IF t = <<>> THEN DOMAIN diffMap = {}
    ELSE LET k == digest(t[1]) IN
         IF k \notin DOMAIN diffMap THEN FALSE
         ELSE takeDigests(Tail(t),
                IF diffMap[k] - 1 = 0
                THEN [x \in DOMAIN diffMap \ {k} |-> diffMap[x]]
                ELSE [diffMap EXCEPT ![k] = @ - 1])

unorderedDeepEqualSlice(src, tgt) ==
    IF Len(src) # Len(tgt) THEN FALSE
    ELSE takeDigests(tgt, digestCounts(src, <<>>))

\* What a call of add and a call of diff that reaches rationalization leave
\* in the record of the run (d.trace), for the statements about single
\* calls.
AddEvent(ptr, at, v, pre, post) ==
    [ev |-> "add", path |-> ptr, at |-> at, value |-> v, pre |-> pre, post |-> post]

DiffEvent(ptr, src, tgt, start, pre, post) ==
    [ev |-> "diff", path |-> ptr, src |-> src, tgt |-> tgt,
     start |-> start, pre |-> pre, post |-> post]

\* A call add(ptr, v) for the key or element whose own pointer is at.
tracedAdd(d, ptr, at, v) ==
    LET r == add(d, ptr, v) IN
    [r EXCEPT !.trace = Append(@, AddEvent(ptr, at, v, d.patch, r.patch))]

RECURSIVE diff(_, _, _, _)
RECURSIVE compareObjectsFrom(_, _, _, _, _, _)
RECURSIVE removeTrailing(_, _, _, _, _, _)
RECURSIVE compareElements(_, _, _, _, _, _)
RECURSIVE appendTrailing(_, _, _, _, _)

\* compareObjects, lines 212-232: the loop over the sorted keys, from the
\* i-th key on.
compareObjectsFrom(d, ptr, src, tgt, keys, i) ==
    IF i > Len(keys) THEN d
    ELSE LET k == keys[i]
             inOld == k \in DOMAIN src
             inNew == k \in DOMAIN tgt
             p == appendKey(snapshot(ptr), k)
             d1 == CASE inOld /\ inNew -> diff(d, p, src[k], tgt[k])
                     [] inOld /\ ~inNew ->
                          IF ptrString(p) \notin d.opts.ignores
                          THEN remove(d, ptrCopy(p), src[k]) ELSE d
                     [] ~inOld /\ inNew ->
                          IF ptrString(p) \notin d.opts.ignores
                          THEN tracedAdd(d, ptrCopy(p), ptrCopy(p), tgt[k]) ELSE d
         IN compareObjectsFrom(d1, rewind(p), src, tgt, keys, i + 1)

\* compareObjects, lines 196-210: the union of the two key sets, sorted.
compareObjects(d, ptr, src, tgt) ==
    compareObjectsFrom(d, ptr, src, tgt,
                       sortStrings(SomeOrder(DOMAIN src \cup DOMAIN tgt)), 1)

\* removeTrailing with each removal at the element's own index instead of
\* the fixed pointer psize.
removeTrailingAtOwnIndex(d, ptr, psize, src, i, n) ==
    IF i >= n THEN d
    ELSE LET p == appendIndex(ptr, i)
             d1 == IF ptrString(p) \notin d.opts.ignores
                   THEN remove(d, ptrCopy(p), src[i + 1]) ELSE d
         IN removeTrailing(d1, rewind(p), psize, src, i + 1, n)

\* compareArrays, lines 248-255: the source's trailing elements, each removed
\* at the fixed pointer psize.
removeTrailing(d, ptr, psize, src, i, n) ==
    IF i >= n THEN d
    ELSE LET p == appendIndex(ptr, i)
             d1 == IF ptrString(p) \notin d.opts.ignores
                   THEN remove(d, psize, src[i + 1]) ELSE d
         IN removeTrailing(d1, rewind(p), psize, src, i + 1, n)

\* compareArrays, lines 262-266: the elements both arrays have.
compareElements(d, ptr, src, tgt, i, size) ==
    IF i >= size THEN d
    ELSE LET p == appendIndex(ptr, i) IN
         compareElements(diff(d, p, src[i + 1], tgt[i + 1]),
                         rewind(p), src, tgt, i + 1, size)

\* compareArrays, lines 271-278: the target's trailing elements.  The pointer
\* is rewound only when the index is not ignored: the result of the loop's
\* last ptr.rewind() is dropped.
appendTrailing(d, ptr, tgt, i, n) ==
    IF i >= n THEN d
    ELSE LET p == appendIndex(ptr, i) IN
         IF ptrString(p) \notin d.opts.ignores
         THEN appendTrailing(
                tracedAdd(d, ptrCopy(appendKey(rewind(p), <<"-">>)),
                          ptrCopy(appendIndex(rewind(p), i)), tgt[i + 1]),
                rewind(p), tgt, i + 1, n)
         ELSE appendTrailing(d, p, tgt, i + 1, n)

compareArrays(d, ptr0, src, tgt) ==
    LET ptr == snapshot(ptr0)
        size == min(Len(src), Len(tgt))
        d1 == IF size < Len(src)
              THEN removeTrailing(d, ptr, ptrCopy(appendIndex(ptr, size)),
                                  src, size, Len(src))
              ELSE d
        d2 == IF d.opts.equivalent /\ unorderedDeepEqualSlice(src, tgt)
              THEN d1
              ELSE compareElements(d1, ptr, src, tgt, 0, size)
    IN appendTrailing(d2, ptr, tgt, size, Len(tgt))

\* diff, lines 117-120: rationalize the operations the call added.
rationalizeNew(d, d1, ptr, src, tgt, size) ==
    IF d.opts.rationalize /\ Len(d1.patch) > size
    THEN LET r == rationalizeLastOps(d1, ptr, src, tgt, size) IN
         [r EXCEPT !.trace =
            Append(@, DiffEvent(ptrCopy(ptr), src, tgt, d.patch, d1.patch, r.patch))]
    ELSE d1

diff(d, ptr, src, tgt) ==
    IF src = Null /\ tgt = Null THEN d
    ELSE IF ptrCopy(ptr) \in d.opts.ignores THEN d
    ELSE IF ~areComparable(src, tgt)
         THEN IF isRoot(ptr)
              THEN [d EXCEPT !.patch =
                      PatchAppend(@, OperationAdd, emptyPtr, ptrCopy(ptr), src, tgt)]
              ELSE replace(d, ptrCopy(ptr), src, tgt)
    ELSE IF deepValueEqual(src, tgt, typeSwitchKind(src)) THEN d
    ELSE LET size == Len(d.patch) IN
         CASE src.kind = "arr" ->
                rationalizeNew(d, compareArrays(d, ptr, src.elems, tgt.elems),
                               ptr, src, tgt, size)
           [] src.kind = "obj" ->
                rationalizeNew(d, compareObjects(d, ptr, src.members, tgt.members),
                               ptr, src, tgt, size)
           [] OTHER -> replace(d, ptrCopy(ptr), src, tgt)

(***************************************************************************)
(* prepare.  The range over the source object (line 156) visits the keys   *)
(* in an order the runtime picks, and a later write to the hash index      *)
(* replaces an earlier one with the same digest: prepare yields the set of *)
(* the hash indexes the orders can leave.                                  *)
(***************************************************************************)
hashmapPut(h, k, node) ==
    [x \in DOMAIN h \cup {k} |-> IF x = k THEN node ELSE h[x]]

jsonNode(p, v) == [ptr |-> p, val |-> v]

RECURSIVE prepare(_, _, _, _)
RECURSIVE prepareElements(_, _, _, _, _, _)
RECURSIVE prepareKeys(_, _, _, _, _, _)

\* prepare, lines 149-151
prepareElements(hs, p, oarr, narr, i, n) ==
    IF i >= n THEN hs
    ELSE prepareElements(
           UNION {prepare(h, appendIndex(p, i), oarr[i + 1], narr[i + 1]) : h \in hs},
           p, oarr, narr, i + 1, n)

\* prepare, lines 156-160, for one order of the keys both objects have
prepareKeys(hs, p, oobj, nobj, order, i) ==
    IF i > Len(order) THEN hs
    ELSE prepareKeys(
           UNION {prepare(h, appendKey(p, order[i]), oobj[order[i]], nobj[order[i]])
                    : h \in hs},
           p, oobj, nobj, order, i + 1)

\* prepare without the test of deep equality in front of the write to the
\* hash index: every comparable pair's location is indexed.
prepareWithoutEqualTest(h, p, src, tgt) ==
    IF src = Null /\ tgt = Null THEN {h}
    ELSE IF ~areComparable(src, tgt) THEN {h}
    ELSE LET h1 == hashmapPut(h, digest(src), jsonNode(ptrCopy(p), src)) IN
         IF deepValueEqual(src, tgt, typeSwitchKind(src)) THEN {h1}
         ELSE CASE src.kind = "arr" ->
                     prepareElements({h1}, p, src.elems, tgt.elems, 0,
                                     min(Len(src.elems), Len(tgt.elems)))
                [] src.kind = "obj" ->
                     UNION {prepareKeys({h1}, p, src.members, tgt.members, order, 1)
                              : order \in Orders(DOMAIN src.members \cap DOMAIN tgt.members)}
                [] OTHER -> {h1}

prepare(h, p, src, tgt) ==
    IF src = Null /\ tgt = Null THEN {h}
    ELSE IF ~areComparable(src, tgt) THEN {h}
    ELSE IF deepValueEqual(src, tgt, typeSwitchKind(src))
         THEN {hashmapPut(h, digest(tgt), jsonNode(ptrCopy(p), tgt))}
    ELSE CASE src.kind = "arr" ->
                prepareElements({h}, p, src.elems, tgt.elems, 0,
                                min(Len(src.elems), Len(tgt.elems)))
           [] src.kind = "obj" ->
                UNION {prepareKeys({h}, p, src.members, tgt.members, order, 1)
                         : order \in Orders(DOMAIN src.members \cap DOMAIN tgt.members)}
           [] OTHER -> {h}

(***************************************************************************)
(* Compare and Reset                                                       *)
(***************************************************************************)
\* pointer.reset
ptrReset(p) == [buf |-> <<>>, sep |-> 0]

\* Compare, lines 70-72: the hash indexes the preparatory pass can leave.
prepared(o, h, p, src, tgt) ==
    IF o.factorize THEN prepare(h, p, src, tgt) ELSE {h}

\* Compare, lines 73-74, on a Differ whose hash index is h.
compared(pt, h, o, p, src, tgt) ==
    diff([patch |-> pt, hashmap |-> h, opts |-> o, trace |-> <<>>], p, src, tgt)

\* The zero value of options.
zeroOpts ==
    [factorize |-> FALSE, rationalize |-> FALSE, invertible |-> FALSE,
     equivalent |-> FALSE, ignores |-> {}]

(***************************************************************************)
(* The documents and options the model runs the Differ on                  *)
(***************************************************************************)
\* The largest number at the root, the longest array at the root, and the
\* most comparisons explored on one Differ without a Reset in between.
MaxNum == 2

MaxLen == 2

MaxRuns == 2

KeyA == <<"a">>

KeyAB == <<"a", "b">>

KeyB == <<"b">>

ArraysOf(S, n) == UNION {[1..k -> S] : k \in 0..n}

ObjectsOver(K, V) == UNION {{Obj(f) : f \in [D -> V]} : D \in SUBSET K}

Scalars == {Null} \cup {Num(n) : n \in 1..MaxNum}

RootArrays == {Arr(s) : s \in ArraysOf({Num(1), Num(2)}, MaxLen)}

\* The documents a Differ is compared on again without a Reset.
ReuseDocs ==
    {Obj(KeyA :> EmptyObj),
     Obj((KeyA :> EmptyObj) @@ (KeyB :> Num(1))),
     Obj(KeyA :> Obj(KeyA :> EmptyObj))}

Docs ==
    Scalars \cup RootArrays
      \cup ObjectsOver({KeyA, KeyB},
             {Num(1), Num(2), Arr(<<Num(1)>>), Arr(<<Num(1), Num(1)>>),
              Arr(<<Num(1), Num(2)>>)})
      \cup {Obj(KeyAB :> Num(1)),
            Obj((KeyA :> Num(1)) @@ (KeyAB :> Num(1)) @@ (KeyB :> Num(1))),
            Obj(KeyA :> Null),
            Obj((KeyA :> Arr(<<>>)) @@ (KeyB :> Num(1))),
            Obj((KeyA :> Num(1)) @@ (KeyB :> Arr(<<Num(2)>>))),
            Arr(<<Arr(<<>>), Num(1), Num(2)>>),
            Arr(<<Arr(<<Num(1)>>)>>)}
      \cup ReuseDocs

\* The documents of the runs with every option off.
BaselineDocs ==
    Scalars \cup RootArrays
      \cup ObjectsOver({KeyA, KeyB},
             {Null, Num(1), Num(2), Arr(<<>>), Arr(<<Num(1)>>), Arr(<<Num(2), Num(1)>>),
              EmptyObj, Obj(KeyA :> Num(1))})
      \cup {Obj(KeyAB :> Num(1)), Obj((KeyA :> Num(1)) @@ (KeyAB :> Num(2))),
            Arr(<<Arr(<<>>)>>), Arr(<<Arr(<<Num(1)>>), Num(2)>>),
            Arr(<<Num(1), Num(2), Num(1), Num(2)>>),
            Arr(<<Obj(KeyA :> Num(1))>>), Arr(<<Obj(KeyB :> Num(1)), Null>>)}

\* The documents and ignore sets of the runs with ignored paths.
IgnoreDocs ==
    RootArrays
      \cup ObjectsOver({KeyA, KeyB}, {Num(1), Num(2)})
      \cup {Obj(KeyA :> Arr(<<Num(1)>>)), Obj(KeyA :> Arr(<<Num(1), Num(2), Num(1)>>))}

IgnoreChoices ==
    {{<<"/", "0">>}, {<<"/", "1">>}, {<<"/", "0">>, <<"/", "1">>},
     {<<"/", "a">>}, {<<"/", "b">>}, {<<"/", "a", "/", "1">>, <<"/", "a", "/", "2">>}}

Flags ==
    [factorize : BOOLEAN, rationalize : BOOLEAN, invertible : BOOLEAN,
     equivalent : BOOLEAN, ignores : {{}}]

IgnoreOptions ==
    [factorize : BOOLEAN, rationalize : BOOLEAN, invertible : BOOLEAN,
     equivalent : BOOLEAN, ignores : IgnoreChoices]

(***************************************************************************)
(* The state machine: a Differ, configured, compared and reset             *)
(***************************************************************************)
NoRun == [patch |-> <<>>, hashmap |-> <<>>]

Init ==
    /\ patch = <<>>
    /\ hashmap = <<>>
    /\ opts = zeroOpts
    /\ dptr = NewPointer
    /\ runs = 0
    /\ lastSrc = Null
    /\ lastTgt = Null
    /\ before = NoRun
    /\ trace = <<>>
    /\ reused = FALSE

\* WithOpts
WithOpts(o) ==
    /\ opts' = o
    /\ UNCHANGED <<patch, hashmap, dptr, runs, lastSrc, lastTgt, before, trace,
                   reused>>

\* Compare(src, tgt)
Compare(src, tgt) ==
    /\ \E h \in prepared(opts, hashmap, dptr, src, tgt) :
         LET d == compared(patch, h, opts, dptr, src, tgt) IN
         /\ patch' = d.patch
         /\ hashmap' = h
         /\ trace' = d.trace
    /\ runs' = runs + 1
    /\ lastSrc' = src
    /\ lastTgt' = tgt
    /\ before' = [patch |-> patch, hashmap |-> hashmap]
    /\ UNCHANGED <<opts, dptr, reused>>

\* Reset without the loop that clears the hash index.
ResetKeepingIndex ==
    /\ patch' = <<>>
    /\ dptr' = ptrReset(dptr)
    /\ hashmap' = hashmap
    /\ runs' = 0
    /\ lastSrc' = Null
    /\ lastTgt' = Null
    /\ before' = NoRun
    /\ trace' = <<>>
    /\ reused' = (reused \/ runs > 0)
    /\ UNCHANGED opts

\* Reset
Reset ==
    /\ patch' = <<>>
    /\ dptr' = ptrReset(dptr)
    /\ hashmap' = <<>>
    /\ runs' = 0
    /\ lastSrc' = Null
    /\ lastTgt' = Null
    /\ before' = NoRun
    /\ trace' = <<>>
    /\ reused' = (reused \/ runs > 0)
    /\ UNCHANGED opts

\* The options are set on a Differ that has not compared since it was made
\* or reset.
Configure == runs = 0 /\ \E o \in Flags : WithOpts(o)

\* The first comparison on a Differ that was made or reset.
CompareFirst == runs = 0 /\ \E src, tgt \in Docs : Compare(src, tgt)

\* A further comparison without a Reset, explored on the documents of
\* ReuseDocs and at most MaxRuns comparisons deep.
CompareAgain ==
    /\ runs > 0
    /\ runs < MaxRuns
    /\ lastSrc \in ReuseDocs
    /\ lastTgt \in ReuseDocs
    /\ \E src, tgt \in ReuseDocs : Compare(src, tgt)

Next == Configure \/ CompareFirst \/ CompareAgain \/ Reset

Spec == Init /\ [][Next]_vars

\* The Differ with every option off, on the larger set of documents.
CompareBaseline == runs = 0 /\ \E src, tgt \in BaselineDocs : Compare(src, tgt)

NextBaseline == CompareBaseline \/ Reset

SpecBaseline == Init /\ [][NextBaseline]_vars

\* The Differ with ignored paths.
ConfigureIgnores == runs = 0 /\ \E o \in IgnoreOptions : WithOpts(o)

CompareIgnoring == runs = 0 /\ \E src, tgt \in IgnoreDocs : Compare(src, tgt)

NextIgnore == ConfigureIgnores \/ CompareIgnoring \/ Reset

SpecIgnore == Init /\ [][NextIgnore]_vars

(***************************************************************************)
(* Applying a patch to a document (RFC 6902 and RFC 6901), the reading the *)
(* statements about a patch's effect are made under.  Failed is the result *)
(* of an operation that cannot be applied.                                 *)
(***************************************************************************)
Failed == [kind |-> "error"]

\* The reference tokens of a JSON Pointer, unescaped.
RECURSIVE Unescape(_)
Unescape(t) ==
    IF t = <<>> THEN <<>>
    ELSE IF Len(t) >= 2 /\ t[1] = "~" /\ t[2] = "1" THEN <<"/">> \o Unescape(SubSeq(t, 3, Len(t)))
    ELSE IF Len(t) >= 2 /\ t[1] = "~" /\ t[2] = "0" THEN <<"~">> \o Unescape(SubSeq(t, 3, Len(t)))
    ELSE <<t[1]>> \o Unescape(Tail(t))

RECURSIVE SplitPointer(_, _, _)
SplitPointer(s, i, cur) ==
    IF i > Len(s) THEN <<Unescape(cur)>>
    ELSE IF s[i] = "/" THEN <<Unescape(cur)>> \o SplitPointer(s, i + 1, <<>>)
    ELSE SplitPointer(s, i + 1, Append(cur, s[i]))

Tokens(s) == IF s = <<>> THEN <<>> ELSE SplitPointer(s, 2, <<>>)

IsDigit(c) == \E i \in 1..10 : Digits[i] = c

DigitValue(c) == (CHOOSE i \in 1..10 : Digits[i] = c) - 1

RECURSIVE Atoi(_)
Atoi(t) ==
    IF Len(t) = 1 THEN DigitValue(t[1])
    ELSE 10 * Atoi(SubSeq(t, 1, Len(t) - 1)) + DigitValue(t[Len(t)])

\* An array index: digits without a leading zero.
IsIndex(t) ==
    /\ t # <<>>
    /\ \A i \in 1..Len(t) : IsDigit(t[i])
    /\ (Len(t) > 1 => t[1] # "0")

RECURSIVE Lookup(_, _)
Lookup(doc, toks) ==
    IF toks = <<>> THEN doc
    ELSE CASE doc.kind = "obj" ->
                IF toks[1] \in DOMAIN doc.members
                THEN Lookup(doc.members[toks[1]], Tail(toks)) ELSE Failed
           [] doc.kind = "arr" ->
                IF IsIndex(toks[1]) /\ Atoi(toks[1]) < Len(doc.elems)
                THEN Lookup(doc.elems[Atoi(toks[1]) + 1], Tail(toks)) ELSE Failed
           [] OTHER -> Failed

InsertAt(s, i, v) == SubSeq(s, 1, i) \o <<v>> \o SubSeq(s, i + 1, Len(s))

DeleteAt(s, i) == SubSeq(s, 1, i) \o SubSeq(s, i + 2, Len(s))

SetMember(f, k, v) == [x \in DOMAIN f \cup {k} |-> IF x = k THEN v ELSE f[x]]

DropMember(f, k) == [x \in DOMAIN f \ {k} |-> f[x]]

\* The document with its child at tok replaced by c (Failed when c is).
WithChild(doc, tok, c) ==
    IF c = Failed THEN Failed
    ELSE IF doc.kind = "obj" THEN Obj(SetMember(doc.members, tok, c))
    ELSE Arr([doc.elems EXCEPT ![Atoi(tok) + 1] = c])

HasChild(doc, tok) == Lookup(doc, <<tok>>) # Failed

RECURSIVE AddAt(_, _, _)
AddAt(doc, toks, v) ==
    IF toks = <<>> THEN v
    ELSE IF Len(toks) = 1
         THEN CASE doc.kind = "obj" -> Obj(SetMember(doc.members, toks[1], v))
                [] doc.kind = "arr" ->
                     IF toks[1] = <<"-">> THEN Arr(Append(doc.elems, v))
                     ELSE IF IsIndex(toks[1]) /\ Atoi(toks[1]) <= Len(doc.elems)
                          THEN Arr(InsertAt(doc.elems, Atoi(toks[1]), v))
                          ELSE Failed
                [] OTHER -> Failed
    ELSE IF HasChild(doc, toks[1])
         THEN WithChild(doc, toks[1], AddAt(Lookup(doc, <<toks[1]>>), Tail(toks), v))
         ELSE Failed

RECURSIVE RemoveAt(_, _)
RemoveAt(doc, toks) ==
    IF toks = <<>> THEN Failed
    ELSE IF ~HasChild(doc, toks[1]) THEN Failed
    ELSE IF Len(toks) = 1
         THEN IF doc.kind = "obj" THEN Obj(DropMember(doc.members, toks[1]))
              ELSE Arr(DeleteAt(doc.elems, Atoi(toks[1])))
    ELSE WithChild(doc, toks[1], RemoveAt(Lookup(doc, <<toks[1]>>), Tail(toks)))

RECURSIVE ReplaceAt(_, _, _)
ReplaceAt(doc, toks, v) ==
    IF toks = <<>> THEN v
    ELSE IF ~HasChild(doc, toks[1]) THEN Failed
    ELSE WithChild(doc, toks[1], ReplaceAt(Lookup(doc, <<toks[1]>>), Tail(toks), v))

\* from is a proper prefix of path, token by token.
StrictPrefix(from, path) ==
    /\ Len(Tokens(from)) < Len(Tokens(path))
    /\ SubSeq(Tokens(path), 1, Len(Tokens(from))) = Tokens(from)

ApplyOp(doc, op) ==
    IF doc = Failed THEN Failed
    ELSE CASE op.type = OperationAdd -> AddAt(doc, Tokens(op.path), op.value)
           [] op.type = OperationRemove -> RemoveAt(doc, Tokens(op.path))
           [] op.type = OperationReplace -> ReplaceAt(doc, Tokens(op.path), op.value)
           [] op.type = OperationTest ->
                IF Lookup(doc, Tokens(op.path)) = op.value THEN doc ELSE Failed
           [] op.type = OperationMove ->
                LET v == Lookup(doc, Tokens(op.from))
                    r == RemoveAt(doc, Tokens(op.from))
                IN IF v = Failed \/ r = Failed \/ StrictPrefix(op.from, op.path)
                   THEN Failed ELSE AddAt(r, Tokens(op.path), v)
           [] op.type = OperationCopy ->
                LET v == Lookup(doc, Tokens(op.from))
                IN IF v = Failed THEN Failed ELSE AddAt(doc, Tokens(op.path), v)

RECURSIVE ApplyPatch(_, _)
ApplyPatch(doc, p) ==
    IF p = <<>> THEN doc ELSE ApplyPatch(ApplyOp(doc, p[1]), Tail(p))

(***************************************************************************)
(* The statements checked                                                  *)
(***************************************************************************)
\* The state after the first comparison on a Differ that was made or reset.
FirstRun == runs = 1

Last(p) == p[Len(p)]

OpsOfType(p, types) == {i \in 1..Len(p) : p[i].type \in types}

\* The patches a newly made Differ with options o can return for src, tgt.
FreshPatches(o, src, tgt) ==
    {compared(<<>>, h, o, NewPointer, src, tgt).patch
       : h \in prepared(o, <<>>, NewPointer, src, tgt)}

\* C1: the patch of the first comparison on a made or reset Differ, applied
\* in order to the source, yields the target.  Stated for the flag
\* combinations with equivalent off: with equivalent on, arrays that are
\* permutations of each other are left as they are.
C1_RoundTrip ==
    (FirstRun /\ opts.ignores = {} /\ ~opts.equivalent) =>
      ApplyPatch(lastSrc, patch) = lastTgt

\* Root arrays: the removals of a shrink all carry the index of the shorter
\* length and open the patch; the additions of a growth close it, each at the
\* "-" pointer, in the target's order.
ShrinkAtFixedIndex(src, tgt, p) ==
    LET n == Len(tgt.elems)
        k == Len(src.elems) - n
    IN /\ Len(p) >= k
       /\ \A i \in 1..k :
            /\ p[i].type = OperationRemove
            /\ p[i].path = <<"/">> \o Itoa(n)
            /\ p[i].old = src.elems[n + i]

GrowthAtDash(src, tgt, p) ==
    LET n == Len(src.elems)
        k == Len(tgt.elems) - n
    IN /\ Len(p) >= k
       /\ \A i \in 1..k :
            /\ p[Len(p) - k + i].type = OperationAdd
            /\ p[Len(p) - k + i].path = <<"/", "-">>
            /\ p[Len(p) - k + i].value = tgt.elems[n + i]

\* C2: with the four flags off and nothing ignored, the patch of a comparison
\* on a made or reset Differ holds only add, remove and replace operations
\* and, applied to the source, yields the target; incomparable roots give the
\* single operation add at the root; a shrinking root array removes at the
\* fixed index of the shorter length and a growing one appends at "-" in the
\* target's order.
C2_BaselineCorrect ==
    (FirstRun /\ opts = zeroOpts) =>
      /\ \A i \in 1..Len(patch) :
           patch[i].type \in {OperationAdd, OperationRemove, OperationReplace}
      /\ ApplyPatch(lastSrc, patch) = lastTgt
      /\ ~areComparable(lastSrc, lastTgt) =>
           patch = <<Operation(OperationAdd, emptyPtr, emptyPtr, lastSrc, lastTgt)>>
      /\ (lastSrc.kind = "arr" /\ lastTgt.kind = "arr"
            /\ Len(lastSrc.elems) > Len(lastTgt.elems)) =>
           ShrinkAtFixedIndex(lastSrc, lastTgt, patch)
      /\ (lastSrc.kind = "arr" /\ lastTgt.kind = "arr"
            /\ Len(lastSrc.elems) < Len(lastTgt.elems)) =>
           GrowthAtDash(lastSrc, lastTgt, patch)

\* A baseline run that shrinks an array by two and removes an object's key.
C2_Witness ==
    /\ FirstRun
    /\ opts = zeroOpts
    /\ lastSrc = Obj((KeyA :> Arr(<<Num(2), Num(1)>>)) @@ (KeyB :> EmptyObj))
    /\ lastTgt = Obj(KeyA :> Arr(<<>>))
    /\ Len(patch) = 3
    /\ patch[1].type = OperationRemove
    /\ patch[1].path = <<"/", "a", "/", "0">>
    /\ patch[2] = [patch[1] EXCEPT !.old = Num(1)]
    /\ patch[3].type = OperationRemove
    /\ patch[3].path = <<"/", "b">>

\* C3: with invertible set, every remove and every replace of the patch comes
\* right after a test of the same path whose value is the value the document
\* holds at that path at that point of the patch's application to the source.
C3_TestsPrecede ==
    (FirstRun /\ opts.invertible /\ opts.ignores = {}) =>
      \A i \in OpsOfType(patch, {OperationRemove, OperationReplace}) :
        /\ i > 1
        /\ patch[i - 1].type = OperationTest
        /\ patch[i - 1].path = patch[i].path
        /\ patch[i - 1].value =
             Lookup(ApplyPatch(lastSrc, SubSeq(patch, 1, i - 2)), Tokens(patch[i].path))

\* C4: the patch of a comparison on a made or reset Differ is the same
\* whatever order the keys of the objects are ranged over.
C4_Deterministic ==
    FirstRun => \A p \in FreshPatches(opts, lastSrc, lastTgt) : p = patch

\* C5: no add is emitted for an object key or a trailing array element whose
\* own pointer is ignored.
C5_NoIgnoredAdd ==
    FirstRun =>
      \A i \in 1..Len(trace) :
        trace[i].ev = "add" => trace[i].at \notin opts.ignores

NoSelfNesting(p) ==
    \A i \in OpsOfType(p, {OperationMove, OperationCopy}) :
      ~StrictPrefix(p[i].from, p[i].path)

\* C6, as stated: whenever Compare has run with factorize on, no move or copy
\* of the patch has a from that is a strict prefix of its path.
C6_NoSelfNestingAlways == (runs > 0 /\ opts.factorize) => NoSelfNesting(patch)

\* C6, amended: with factorize on, no move or copy of the patch of a
\* comparison on a made or reset Differ has a from that is a strict prefix of
\* its path.
C6_NoSelfNestingFirstRun == (FirstRun /\ opts.factorize) => NoSelfNesting(patch)

\* A first run whose patch holds a copy from "/a" to "/ab": the from is a
\* prefix of the path as a string and not as a pointer.
C6_Witness ==
    /\ FirstRun
    /\ opts.factorize
    /\ \E i \in OpsOfType(patch, {OperationCopy}) :
         /\ patch[i].from = <<"/", "a">>
         /\ patch[i].path = <<"/", "a", "b">>

\* C7, as stated: after any earlier comparisons and resets the patch after a
\* further comparison is a patch a newly made Differ with the same options
\* returns; a made or reset Differ has an empty patch and hash index.
C7_NoStateCarried ==
    /\ runs = 0 => (patch = <<>> /\ hashmap = <<>>)
    /\ runs > 0 => patch \in FreshPatches(opts, lastSrc, lastTgt)

\* C7, amended: Reset leaves the patch and the hash index empty, and the
\* patch of the comparison that follows a Reset is a patch a newly made
\* Differ with the same options returns.
C7_NoStateAcrossReset ==
    /\ runs = 0 => (patch = <<>> /\ hashmap = <<>>)
    /\ FirstRun => patch \in FreshPatches(opts, lastSrc, lastTgt)

\* A comparison with a patch and a hash index to show, on a Differ that was
\* reset after an earlier comparison.
C7_Witness ==
    /\ FirstRun
    /\ reused
    /\ patch # <<>>
    /\ hashmap # <<>>

\* C8: with factorize on, every call add(path, v) leaves the patch with a new
\* last operation at that path: a move, a copy or an add.
C8_AddAccounted ==
    (FirstRun /\ opts.factorize) =>
      \A i \in 1..Len(trace) :
        trace[i].ev = "add" =>
          /\ trace[i].post # trace[i].pre
          /\ Last(trace[i].post).path = trace[i].path
          /\ Last(trace[i].post).type \in {OperationMove, OperationCopy, OperationAdd}

\* The events of the calls of diff that substituted a replace.
Substituted(e) == e.ev = "diff" /\ e.post # e.pre

SubstituteOps(o, e) ==
    newOps([opts |-> o], [buf |-> e.path, sep |-> 0], e.src, e.tgt)

\* C9: a call of diff that substitutes a replace leaves the operations the
\* patch held when the call started in place and puts the replace (with its
\* test) in the place of all the operations the call emitted.
C9_FrameKept ==
    FirstRun =>
      \A i \in 1..Len(trace) :
        Substituted(trace[i]) =>
          trace[i].post = trace[i].start \o SubstituteOps(opts, trace[i])

\* C10: without factorize, a call of diff substitutes the replace (with its
\* test when invertible) exactly when that costs strictly less than the
\* operations the call emitted, so a substitution never makes the patch cost
\* more.
C10_StrictlyCheaper ==
    (FirstRun /\ ~opts.factorize) =>
      \A i \in 1..Len(trace) :
        trace[i].ev = "diff" =>
          LET e == trace[i]
              emitted == SubSeq(e.pre, Len(e.start) + 1, Len(e.pre))
          IN /\ Substituted(e) <=>
                  patchJsonLength(SubstituteOps(opts, e)) < patchJsonLength(emitted)
             /\ patchJsonLength(e.post) <= patchJsonLength(e.pre)

====
